---- MODULE Spec2Model ----
(***************************************************************************)
(* Join-channel selection of lorawan-device's fixed channel plans          *)
(* (US915 / AU915): src/lorawan-device/src/region/fixed_channel_plans/     *)
(* join_channels.rs.                                                       *)
(*                                                                         *)
(* JoinChannels (the bias controller) owns an AvailableChannels (the       *)
(* channel pool: a 72-bit availability mask and the previous selection).   *)
(* The entropy source (&mut impl RngCore) is modelled by the set of 32-bit *)
(* words it can produce; every call of next_u32 picks one of them.         *)
(***************************************************************************)
EXTENDS Integers, Naturals, Sequences, FiniteSets, TLC

VARIABLES
    max_retries,        \* JoinChannels.max_retries
    num_retries,        \* JoinChannels.num_retries
    preferred_subband,  \* JoinChannels.preferred_subband : Option<Subband>
    data,               \* AvailableChannels.data : the set of enabled channels
    previous,           \* AvailableChannels.previous : Option<usize>
    pc,                 \* "idle", or "search" inside the loop of get_next_channel_inner
    bank,               \* local of get_next_channel_inner
    entropy,            \* local of get_next_channel_inner
    entropy_used,       \* local of get_next_channel_inner
    channel,            \* local of get_next_channel_inner
    rng,                \* the words the entropy source can produce
    ret,                \* value returned by the last completed operation
    op,                 \* the last completed operation
    first,              \* first channel returned since construction / reset
    count,              \* get_next_channel calls completed since construction / reset
    dirty,              \* the bias was (re)configured after the pool was touched
    returned,           \* per kind of pick, the channels returned since the last reset
    start,              \* the channel that began the pool's current cycle
    since,              \* picks completed since the last fallback pick
    draws,              \* next_u32 calls made by the current or last get_next_channel
    word,               \* the word the search loop drew last
    cleared             \* the last calls were clear_join_bias, reset, at most one pick

vars == <<max_retries, num_retries, preferred_subband, data, previous,
          pc, bank, entropy, entropy_used, channel, rng,
          ret, op, first, count, dirty, returned, start, since,
          draws, word, cleared>>

(***************************************************************************)
(* Bounds of the model.                                                    *)
(***************************************************************************)
\* largest max_retries handed to set_join_bias
MaxRetries == 2
\* count saturates here
MaxCount == 11
\* draws saturates here
MaxDraws == 2

(***************************************************************************)
(* Program constants.                                                      *)
(***************************************************************************)
\* channels of the plan: ChannelMask<9> holds 9 * 8 bits
NumChannels == 72
\* channels per bank; the walk's stride
BankSize == 8
\* mask of the bottom 64 channels is 0b111111, i.e. modulo 64
NumStandard == 64
\* extractions taken from one word of entropy before it is replaced
EntropyPerWord == 10

Channels == 0 .. (NumChannels - 1)
\* banks of the plan; a lane of the walk crosses each once
NumBanks == NumChannels \div BankSize
Subbands == 1 .. 8

\* Option<T>
None == << >>
Some(x) == << x >>
Unwrap(o) == o[1]

(***************************************************************************)
(* ChannelMask<9>: the set of enabled channels.                            *)
(***************************************************************************)
ChannelMaskDefault == Channels
is_enabled(mask, ch) == ch \in mask
set_channel_false(mask, ch) == mask \ {ch}

(***************************************************************************)
(* The arithmetic of the handlers.                                         *)
(***************************************************************************)
\* mutant: the subband taken as a zero-based bank
BiasedChannelZeroBased(w, sb) == (w % 8) + (sb * 8)

\* (rng.next_u32() as usize % 8) + ((sb as usize - 1) * 8)
BiasedChannel(w, sb) == (w % 8) + ((sb - 1) * 8)

\* mutant: a stride of one bank and one lane
NextCandidateSkewed(p) == (p + BankSize + 1) % NumChannels

\* (previous + 8) % 72
NextCandidate(p) == (p + BankSize) % NumChannels

\* mutant: a mask one bit too wide
FreshChannelWide(w) == w % (2 * NumStandard)

\* mutant: the draw used without its mask
FreshChannelUnmasked(w) == w

\* (rng.next_u32() as usize) & 0b111111
FreshChannel(w) == w % NumStandard

\* (entropy & 0b111) + bank * 8
SearchChannel(e, b) == (e % 8) + b * BankSize

\* entropy >>= 3
ShiftEntropy(e) == e \div 8

\* mutant: the bank of the previous channel instead of the candidate's
SearchBankOfPrevious(next) == ((next + NumChannels - BankSize) % NumChannels) \div BankSize

\* let bank = next / 8
SearchBank(next) == next \div BankSize

\* mutant: exhaustion never detected
is_exhausted_never(mask) == FALSE

\* AvailableChannels::is_exhausted
is_exhausted(mask) == \A ch \in Channels : ~is_enabled(mask, ch)

\* mutant: Ordering::Less | Ordering::Equal
IsBiasedOrEqual == preferred_subband # None /\ num_retries <= max_retries

\* the match of get_next_channel: (Some(sb), Ordering::Less)
IsBiased == preferred_subband # None /\ num_retries < max_retries

\* mutant: the pool is seeded by the first biased attempt
IsLastTryFirst(n) == n = 1

\* mutant: the pool is never seeded by the last biased attempt
IsLastTryNever(n) == FALSE

\* self.num_retries == self.max_retries, after the increment
IsLastTry(n) == n = max_retries


(***************************************************************************)
(* Entropy words.  Pack builds a word from its 3-bit fields, lowest first. *)
(***************************************************************************)
RECURSIVE Pack(_)
Pack(fields) ==
    IF fields = << >> THEN 0 ELSE Head(fields) + 8 * Pack(Tail(fields))

\* fields 0,1,...,7,0,1 and 7,6,...,0,7,6
WordUp == Pack(<<0, 1, 2, 3, 4, 5, 6, 7, 0, 1>>)
WordDown == Pack(<<7, 6, 5, 4, 3, 2, 1, 0, 7, 6>>)

(***************************************************************************)
(* Observation of a completed get_next_channel call returning ch.          *)
(***************************************************************************)
PoolOps == {"fresh", "direct", "fallback"}

\* the kinds of pick: by the pool, by a biased attempt, by the final one
Kinds == {"pool", "biased", "biased_last"}

\* nothing returned yet
NoneReturned == [k \in Kinds |-> {}]

\* A call of AvailableChannels::get_next that finds the mask exhausted resets
\* the pool before it picks: the record of returned channels starts again.
Observe(ch, kind) ==
    /\ LET base == IF kind \in PoolOps /\ is_exhausted(data)
                    THEN NoneReturned ELSE returned
           tag == IF kind \in PoolOps THEN "pool" ELSE kind
       IN returned' = [base EXCEPT ![tag] = @ \cup {ch}]
    /\ start' = IF kind = "fresh" \/ (kind = "biased_last" /\ previous = None)
                THEN Some(ch) ELSE start
    /\ since' = IF kind = "fallback" THEN 0
                ELSE IF since < NumBanks - 1 THEN since + 1 ELSE since
    /\ ret' = Some(ch)
    /\ op' = kind
    /\ first' = IF count = 0 THEN Some(ch) ELSE first
    /\ count' = IF count < MaxCount THEN count + 1 ELSE count
    /\ dirty' = dirty
    /\ cleared' = (cleared /\ op = "reset")

\* rng.next_u32() is called once more by the call that made n draws
next_u32(n) == IF n < MaxDraws THEN n + 1 ELSE n

IdleLocals ==
    /\ pc' = "idle"
    /\ bank' = 0
    /\ entropy' = 0
    /\ entropy_used' = 0
    /\ channel' = 0
    /\ word' = 0

(***************************************************************************)
(* JoinChannels::set_join_bias                                             *)
(***************************************************************************)
set_join_bias(subband, retries) ==
    /\ pc = "idle"
    /\ preferred_subband' = Some(subband)
    /\ max_retries' = retries
    /\ ret' = None
    /\ op' = "set_join_bias"
    /\ dirty' = (dirty \/ previous # None)
    /\ cleared' = FALSE
    /\ draws' = 0
    /\ UNCHANGED <<num_retries, data, previous, pc, bank, entropy, entropy_used,
                   channel, rng, word, first, count, returned,
                   start, since>>

\* mutant: clear_join_bias forgets the subband only
clear_join_bias_keeping_retries ==
    /\ pc = "idle"
    /\ preferred_subband' = None
    /\ ret' = None
    /\ op' = "clear_join_bias"
    /\ dirty' = (dirty \/ previous # None)
    /\ cleared' = FALSE
    /\ draws' = 0
    /\ UNCHANGED <<max_retries, num_retries, data, previous, pc, bank, entropy,
                   entropy_used, channel, rng, word, first, count, returned,
                   start, since>>

(***************************************************************************)
(* JoinChannels::clear_join_bias                                           *)
(***************************************************************************)
clear_join_bias ==
    /\ pc = "idle"
    /\ preferred_subband' = None
    /\ max_retries' = 0
    /\ ret' = None
    /\ op' = "clear_join_bias"
    /\ dirty' = (dirty \/ previous # None)
    /\ cleared' = FALSE
    /\ draws' = 0
    /\ UNCHANGED <<num_retries, data, previous, pc, bank, entropy, entropy_used,
                   channel, rng, word, first, count, returned,
                   start, since>>

\* mutant: reset forgets previous and leaves the mask as it is
reset_keeping_mask ==
    /\ pc = "idle"
    /\ num_retries' = 0
    /\ previous' = None
    /\ ret' = None
    /\ op' = "reset"
    /\ first' = None
    /\ count' = 0
    /\ dirty' = FALSE
    /\ cleared' = (op = "clear_join_bias")
    /\ draws' = 0
    /\ returned' = NoneReturned
    /\ start' = None
    /\ since' = NumBanks - 1
    /\ UNCHANGED <<max_retries, preferred_subband, data, pc, bank, entropy,
                   entropy_used, channel, rng, word>>

\* mutant: reset also forgets the bias
reset_clearing_bias ==
    /\ pc = "idle"
    /\ num_retries' = 0
    /\ data' = ChannelMaskDefault
    /\ previous' = None
    /\ preferred_subband' = None
    /\ max_retries' = 0
    /\ ret' = None
    /\ op' = "reset"
    /\ first' = None
    /\ count' = 0
    /\ dirty' = FALSE
    /\ cleared' = (op = "clear_join_bias")
    /\ draws' = 0
    /\ returned' = NoneReturned
    /\ start' = None
    /\ since' = NumBanks - 1
    /\ UNCHANGED <<pc, bank, entropy, entropy_used, channel, rng, word>>

(***************************************************************************)
(* JoinChannels::reset, with AvailableChannels::default()                  *)
(***************************************************************************)
reset ==
    /\ pc = "idle"
    /\ num_retries' = 0
    /\ data' = ChannelMaskDefault
    /\ previous' = None
    /\ ret' = None
    /\ op' = "reset"
    /\ first' = None
    /\ count' = 0
    /\ dirty' = FALSE
    /\ cleared' = (op = "clear_join_bias")
    /\ draws' = 0
    /\ returned' = NoneReturned
    /\ start' = None
    /\ since' = NumBanks - 1
    /\ UNCHANGED <<max_retries, preferred_subband, pc, bank, entropy,
                   entropy_used, channel, rng, word>>

\* mutant: the channel returned keeps its mask bit
get_next_finish_unmarked(mask, ch, kind) ==
    /\ data' = mask
    /\ previous' = Some(ch)
    /\ IdleLocals
    /\ Observe(ch, kind)
    /\ UNCHANGED <<max_retries, num_retries, preferred_subband, rng>>

(***************************************************************************)
(* AvailableChannels::get_next, after get_next_channel_inner chose ch:     *)
(* mark the channel invalid for future selection and remember it.          *)
(***************************************************************************)
get_next_finish(mask, ch, kind) ==
    /\ data' = set_channel_false(mask, ch)
    /\ previous' = Some(ch)
    /\ IdleLocals
    /\ Observe(ch, kind)
    /\ UNCHANGED <<max_retries, num_retries, preferred_subband, rng>>

\* mutant: the last try is recorded as previous and keeps its mask bit
get_next_channel_biased_unmarked ==
    /\ pc = "idle"
    /\ IsBiased
    /\ \E w \in rng :
         LET ch == BiasedChannel(w, Unwrap(preferred_subband))
             last == IsLastTry(num_retries + 1)
         IN /\ num_retries' = num_retries + 1
            /\ draws' = next_u32(0)
            /\ previous' = IF last THEN Some(ch) ELSE previous
            /\ Observe(ch, IF last THEN "biased_last" ELSE "biased")
    /\ UNCHANGED <<max_retries, preferred_subband, data, pc, bank, entropy,
                   entropy_used, channel, rng, word>>

(***************************************************************************)
(* JoinChannels::get_next_channel, the biased arm.                         *)
(***************************************************************************)
get_next_channel_biased ==
    /\ pc = "idle"
    /\ IsBiased
    /\ \E w \in rng :
         LET ch == BiasedChannel(w, Unwrap(preferred_subband))
             last == IsLastTry(num_retries + 1)
         IN /\ num_retries' = num_retries + 1
            /\ draws' = next_u32(0)
            /\ IF last
               THEN /\ previous' = Some(ch)
                    /\ data' = set_channel_false(data, ch)
               ELSE UNCHANGED <<previous, data>>
            /\ Observe(ch, IF last THEN "biased_last" ELSE "biased")
    /\ UNCHANGED <<max_retries, preferred_subband, pc, bank, entropy,
                   entropy_used, channel, rng, word>>

\* mutant: the word of entropy is drawn before the candidate is looked at
get_next_eager ==
    /\ pc = "idle"
    /\ ~IsBiased
    /\ LET exhausted == is_exhausted(data)
           mask == IF exhausted THEN ChannelMaskDefault ELSE data
           prev == IF exhausted THEN None ELSE previous
       IN \E w \in rng :
            /\ draws' = next_u32(0)
            /\ IF prev = None
               THEN get_next_finish(mask, FreshChannel(w), "fresh")
               ELSE LET next == NextCandidate(Unwrap(prev))
                    IN IF is_enabled(mask, next)
                       THEN get_next_finish(mask, next, "direct")
                       ELSE /\ pc' = "search"
                            /\ bank' = SearchBank(next)
                            /\ entropy' = w
                            /\ word' = w
                            /\ channel' = SearchChannel(w, SearchBank(next))
                            /\ entropy_used' = 1
                            /\ data' = mask
                            /\ previous' = prev
                            /\ UNCHANGED <<max_retries, num_retries,
                                           preferred_subband, rng, ret, op, first,
                                           count, dirty, returned, start, since,
                                           cleared>>

(***************************************************************************)
(* JoinChannels::get_next_channel, the arm delegating to                   *)
(* AvailableChannels::get_next, up to the entry of the search loop.        *)
(***************************************************************************)
get_next ==
    /\ pc = "idle"
    /\ ~IsBiased
    /\ LET exhausted == is_exhausted(data)
           mask == IF exhausted THEN ChannelMaskDefault ELSE data
           prev == IF exhausted THEN None ELSE previous
       IN IF prev = None
          THEN \E w \in rng :
                 /\ draws' = next_u32(0)
                 /\ get_next_finish(mask, FreshChannel(w), "fresh")
          ELSE LET next == NextCandidate(Unwrap(prev))
               IN IF is_enabled(mask, next)
                  THEN draws' = 0 /\ get_next_finish(mask, next, "direct")
                  ELSE \E w \in rng :
                         /\ draws' = next_u32(0)
                         /\ pc' = "search"
                         /\ bank' = SearchBank(next)
                         /\ entropy' = w
                         /\ word' = w
                         /\ channel' = SearchChannel(w, SearchBank(next))
                         /\ entropy_used' = 1
                         /\ data' = mask
                         /\ previous' = prev
                         /\ UNCHANGED <<max_retries, num_retries, preferred_subband,
                                        rng, ret, op, first, count, dirty,
                                        returned, start, since, cleared>>

(***************************************************************************)
(* One iteration of the loop of get_next_channel_inner.                    *)
(***************************************************************************)
search_loop ==
    /\ pc = "search"
    /\ IF is_enabled(data, channel)
       THEN draws' = draws /\ get_next_finish(data, channel, "fallback")
       ELSE \E w \in rng :
              LET refill == entropy_used = EntropyPerWord
                  e == IF refill THEN w ELSE entropy
                  used == IF refill THEN 0 ELSE entropy_used
              IN /\ draws' = IF refill THEN next_u32(draws) ELSE draws
                 /\ word' = IF refill THEN w ELSE word
                 /\ entropy' = ShiftEntropy(e)
                 /\ entropy_used' = used + 1
                 /\ channel' = SearchChannel(ShiftEntropy(e), bank)
                 /\ UNCHANGED <<max_retries, num_retries, preferred_subband, data,
                                previous, pc, bank, rng, ret, op, first, count,
                                dirty, returned, start, since, cleared>>

get_next_channel == get_next_channel_biased \/ get_next

(***************************************************************************)
(* JoinChannels::default()                                                 *)
(***************************************************************************)
Default ==
    /\ max_retries = 0
    /\ num_retries = 0
    /\ preferred_subband = None
    /\ data = ChannelMaskDefault
    /\ previous = None
    /\ pc = "idle"
    /\ bank = 0
    /\ entropy = 0
    /\ entropy_used = 0
    /\ channel = 0
    /\ word = 0
    /\ ret = None
    /\ op = "new"
    /\ first = None
    /\ count = 0
    /\ dirty = FALSE
    /\ cleared = FALSE
    /\ returned = NoneReturned
    /\ start = None
    /\ since = NumBanks - 1
    /\ draws = 0

(***************************************************************************)
(* Spec: every interleaving of the operations.  The bias is reconfigured   *)
(* freely while the pool is untouched, and at most once per cycle after    *)
(* the pool was touched (the next reset allows it again); set_join_bias is *)
(* handed the first two subbands and the last.  The entropy source of a    *)
(* behaviour repeats one word, whose fields hold every offset; the word    *)
(* differs by behaviour.                                                   *)
(***************************************************************************)
RotatedWord(r) == Pack([i \in 1 .. EntropyPerWord |-> (r + i - 1) % 8])

BiasSubbands == {1, 2, 8}

Init == Default /\ rng \in {{RotatedWord(r)} : r \in {0, 3, 7}}

Next ==
    \/ \E sb \in BiasSubbands, n \in 0 .. MaxRetries : ~dirty /\ set_join_bias(sb, n)
    \/ ~dirty /\ clear_join_bias
    \/ reset
    \/ get_next_channel_biased
    \/ get_next
    \/ search_loop

Spec == Init /\ [][Next]_vars

(***************************************************************************)
(* SpecFresh: join cycles of at most MaxCount picks.  The bias is          *)
(* configured only before the first pick of a cycle; the entropy source    *)
(* produces every 6-bit value and the two words above.                     *)
(***************************************************************************)
FreshWords == (0 .. (NumStandard - 1)) \cup {WordUp, WordDown}

InitFresh == Default /\ rng = FreshWords

NextFresh ==
    \/ \E sb \in Subbands, n \in 0 .. MaxRetries : count = 0 /\ set_join_bias(sb, n)
    \/ count = 0 /\ clear_join_bias
    \/ reset
    \/ count < MaxCount /\ get_next_channel_biased
    \/ count < MaxCount /\ get_next
    \/ search_loop

SpecFresh == InitFresh /\ [][NextFresh]_vars

(***************************************************************************)
(* SpecLive: an arbitrarily long run of picks, the bias configured at most *)
(* once, before the first pick, with the subbands Spec uses.  The entropy  *)
(* source produces WordUp, which holds every offset, and the all-zero      *)
(* word; it is fair: an offset it can produce infinitely often is          *)
(* eventually produced.                                                    *)
(***************************************************************************)
LiveWords == {WordUp, 0}

InitLive == Default /\ rng = LiveWords

NextLive ==
    \/ \E sb \in BiasSubbands, n \in 1 .. MaxRetries :
         op = "new" /\ set_join_bias(sb, n)
    \/ get_next_channel_biased
    \/ get_next
    \/ search_loop

\* the loop draws the offset o next
search_draws(o) == search_loop /\ pc' = "search" /\ channel' = SearchChannel(o, bank)

Fairness ==
    /\ WF_vars(search_loop)
    /\ \A o \in 0 .. 7 : SF_vars(search_draws(o))

SpecLive == InitLive /\ [][NextLive]_vars /\ Fairness

(***************************************************************************)
(*                              The claims                                 *)
(***************************************************************************)
Bank(ch) == ch \div 8
Returned == Unwrap(ret)
BiasedOps == {"biased", "biased_last"}
\* this step is, or begins, a call of get_next_channel
CallStep == pc = "idle" /\ (pc' = "search" \/ ret' # None)

\* C1: every value returned by get_next_channel is a channel index in [0,71],
\* whatever operations preceded the call.
C1_ReturnedInRange == ret # None => (Returned >= 0 /\ Returned <= 71)

\* C1 witness: the highest channel is returned in a cycle whose bias was
\* reconfigured after the pool was touched.
C1_Witness == dirty /\ ret = Some(71) /\ op = "direct"

\* C2: whenever the fallback search of get_next_channel_inner runs, the bank
\* it searches still holds an available channel, so the search can end.
C2_SearchBankHasChannel == pc = "search" => \E ch \in data : Bank(ch) = bank

\* C4 as stated: of two consecutive get_next_channel calls, the second returns
\* (c + 8) mod 72 whenever the first returned c and that companion is still
\* available, for any bias configuration.
C4_Original ==
    [][(CallStep /\ ret # None /\ ((Returned + 8) % 72) \in data)
         => (pc' = "idle" /\ ret' = Some((Returned + 8) % 72))]_vars

\* C4 amended: the same, when the first call was delegated to the pool or was
\* the final permitted biased attempt (not an earlier biased attempt).
C4_PairedStep ==
    [][(CallStep /\ ret # None /\ op # "biased" /\ ((Returned + 8) % 72) \in data)
         => (pc' = "idle" /\ ret' = Some((Returned + 8) % 72))]_vars

\* C4 witness: the call right after the only biased attempt of a cycle
\* returned that attempt's channel plus 8.
C4_Witness ==
    /\ op = "direct" /\ count = 2 /\ num_retries = 1 /\ max_retries = 1
    /\ ret = Some(Unwrap(first) + 8)

(***************************************************************************)
(* C3, under SpecLive.                                                     *)
(***************************************************************************)
\* C3: with no bias, or a bias configured once before the first pick, every
\* call of an arbitrarily long run of get_next_channel calls returns (the
\* fallback search ends) and returns a value below 72, across exhaustions.
C3_NeverStalls ==
    /\ (pc = "search") ~> (pc = "idle")
    /\ [](ret # None => Returned < 72)

\* C3 witness: the run went through an exhaustion: a fresh pick was made
\* beyond the first MaxCount picks.
C3_Witness == op = "fresh" /\ count = MaxCount /\ Cardinality(data) = 71

(***************************************************************************)
(* C5, C6, C7, under SpecFresh: count is the number of picks of the cycle, *)
(* first its first channel, ret its latest.                                *)
(***************************************************************************)
SameBankOtherChannel == Bank(Returned) = Bank(Unwrap(first)) /\ Returned # Unwrap(first)

C6_TenPicks ==
    ((preferred_subband = None \/ max_retries = 1) /\ pc = "idle") =>
        /\ count = 2 => Returned = Unwrap(first) + 8
        /\ count \in 3 .. 9 => Returned < 72
        /\ count = 10 => SameBankOtherChannel

\* C6 witness: the 10th pick of a cycle begun by one biased attempt.
C6_Witness ==
    /\ preferred_subband # None /\ max_retries = 1 /\ num_retries = 1
    /\ count = 10 /\ op = "fallback"

\* C7: after set_join_bias(s, 1) on a fresh state the 1st pick is a channel
\* of subband s (never of the wide bank), the 2nd pick is the 1st plus 8, and
\* only the 1st pick is biased: every later one comes from the pool.
C7_SingleBiasedAttempt ==
    \A s \in 1 .. 8 :
        (preferred_subband = Some(s) /\ max_retries = 1 /\ pc = "idle") =>
            /\ count = 1 =>
                 /\ op = "biased_last"
                 /\ Returned >= (s - 1) * 8 /\ Returned <= (s - 1) * 8 + 7
                 /\ Returned < 64
            /\ count = 2 => (op = "direct" /\ Returned = Unwrap(first) + 8)
            /\ count >= 2 => (op \in PoolOps /\ num_retries = 1)

\* C7 witness: subband 8, the biased attempt chose 63 and the pool then 71.
C7_Witness ==
    /\ preferred_subband = Some(8) /\ max_retries = 1
    /\ count = 2 /\ first = Some(63) /\ ret = Some(71)

(***************************************************************************)
(* C8, C9, C10, under Spec.                                                *)
(***************************************************************************)
\* C8: the channel returned by the final permitted biased attempt is not
\* returned by a later non-biased call before the pool returned the other 71
\* channels or reset was called; stated for the non-biased call that follows
\* the attempt at once (the pool returned nothing yet, reset was not called).
C8_BiasedChannelExcluded ==
    [][(op = "biased_last" /\ op' \in PoolOps) => ret' # ret]_vars

\* C9 as stated: num_retries never exceeds max_retries.
C9_Original == num_retries <= max_retries

\* C9 amended: num_retries exceeds max_retries only once set_join_bias or
\* clear_join_bias lowered max_retries below it: no operation that leaves
\* max_retries as it is or raises it makes num_retries exceed it.
C9_OnlyLoweringBreaks ==
    [][(num_retries <= max_retries /\ max_retries' >= max_retries)
         => num_retries' <= max_retries']_vars

\* C9 witness: the budget of biased attempts is used up and a pool pick
\* followed without touching the counter.
C9_Witness == num_retries = max_retries /\ num_retries >= 2 /\ op \in PoolOps

\* C10: reset sets num_retries to 0 and restores the pool (all 72 channels
\* available, previous unset) and keeps preferred_subband and max_retries; so
\* with a bias (s, n), n >= 1, the picks after reset are biased to subband s
\* until n of them were made.
C10_ResetFrame ==
    [][/\ op' = "reset" =>
            /\ num_retries' = 0
            /\ data' = 0 .. 71
            /\ previous' = None
            /\ preferred_subband' = preferred_subband
            /\ max_retries' = max_retries
       /\ (/\ pc = "idle" /\ op \in {"reset", "biased"} /\ ret' # None
           /\ preferred_subband # None /\ num_retries = count
           /\ count < max_retries) =>
            /\ op' \in BiasedOps
            /\ Bank(Unwrap(ret')) = Unwrap(preferred_subband) - 1
            /\ num_retries' = count'
            /\ count' = count + 1]_vars

\* C10 witness: reset was called with a bias in force.
C10_Witness ==
    /\ op = "reset" /\ preferred_subband # None /\ max_retries >= 1
    /\ num_retries = 0 /\ previous = None /\ data = 0 .. 71

(***************************************************************************)
(* C11, C12, under Spec.                                                   *)
(***************************************************************************)
\* C11: clear_join_bias followed by reset yields the default state (no
\* subband, max_retries = 0, num_retries = 0, all 72 channels available,
\* previous unset), and the get_next_channel call that follows is an unbiased
\* first pick: it takes the pool's fresh path and returns a channel in [0,63].
C11_ClearResetIsDefault ==
    [][/\ (op = "clear_join_bias" /\ op' = "reset") =>
            /\ preferred_subband' = None
            /\ max_retries' = 0
            /\ num_retries' = 0
            /\ data' = 0 .. 71
            /\ previous' = None
            /\ pc' = "idle"
       /\ (cleared /\ op = "reset" /\ CallStep) =>
            /\ pc' = "idle"
            /\ op' = "fresh"
            /\ Unwrap(ret') \in 0 .. 63]_vars

\* C11 witness: the first pick after clear_join_bias and reset.
C11_Witness == cleared /\ op = "fresh" /\ count = 1 /\ Cardinality(data) = 71

\* C12: with no bias configured, every pick made while the pool is fresh (the
\* first call, the first call after reset and the first call after the pool
\* found its mask exhausted) returns a channel in [0,63], never one of 64..71.
C12_FreshPickStandard ==
    [][(/\ preferred_subband = None /\ pc = "idle"
        /\ (previous = None \/ data = {})
        /\ ret' # None) =>
            (op' = "fresh" /\ Unwrap(ret') \in 0 .. 63)]_vars

\* C12 witness: with no bias, the fresh pick made after an exhaustion.
C12_Witness ==
    /\ preferred_subband = None /\ op = "fresh" /\ count = MaxCount
    /\ previous = ret /\ Returned <= 63

(***************************************************************************)
(* C13, under Spec.                                                        *)
(***************************************************************************)
\* channels returned since the last reset, by any kind of pick
AllReturned == returned["pool"] \cup returned["biased"] \cup returned["biased_last"]
\* channels returned since the last reset by a pick that marks its channel
MarkedReturned == returned["pool"] \cup returned["biased_last"]

\* C13 as stated: the mask is all-zero if and only if every one of the 72
\* channels was returned since the last reset (explicit or on exhaustion),
\* whichever kind of pick returned it.
C13_Original == (data = {}) <=> (AllReturned = 0 .. 71)

\* C13 amended: the mask is all-zero if and only if every one of the 72
\* channels was returned since the last reset by the pool or by a final
\* biased attempt; a channel returned only by an earlier biased attempt keeps
\* its bit.
C13_MaskZeroIffAllMarked ==
    /\ (data = {}) <=> (MarkedReturned = 0 .. 71)
    /\ data = (0 .. 71) \ MarkedReturned

\* C13 witness: the mask is all-zero in a cycle that had biased attempts.
C13_Witness == data = {} /\ returned["biased"] # {} /\ returned["biased_last"] # {}

(***************************************************************************)
(* C14, under Spec.                                                        *)
(***************************************************************************)
\* this step ends a call that was delegated to the pool
PoolReturn == pc' = "idle" /\ ret' # None /\ op' \in PoolOps

\* C14: the pool never returns a channel whose mask bit is cleared, so the
\* channels the non-biased path returns within one pool cycle are pairwise
\* distinct; with no biased attempt in the cycle the picks made when the mask
\* becomes all-zero are the 72 channels, and the next call resets the pool by
\* itself and starts a new cycle with a fresh pick.
C14_PoolNeverRepeats ==
    /\ [][PoolReturn =>
            /\ Unwrap(ret') \in (IF data = {} THEN 0 .. 71 ELSE data)
            /\ data # {} => Unwrap(ret') \notin returned["pool"]
            /\ data = {} =>
                  /\ op' = "fresh"
                  /\ data' = (0 .. 71) \ {Unwrap(ret')}
                  /\ returned'["pool"] = {Unwrap(ret')}]_vars
    /\ []((data = {} /\ returned["biased"] = {} /\ returned["biased_last"] = {})
            => returned["pool"] = 0 .. 71)

\* C14 witness: a cycle without biased attempts returned all 72 channels, the
\* last of them by the direct step.
C14_Witness ==
    /\ data = {} /\ Cardinality(returned["pool"]) = 72
    /\ returned["biased"] = {} /\ returned["biased_last"] = {}
    /\ op = "direct" /\ count = MaxCount

(***************************************************************************)
(* C15, under Spec.                                                        *)
(***************************************************************************)
\* C15: between operations, previous is unset if and only if all 72 mask bits
\* are set, and when previous is Some(p) the mask bit of p is cleared.
C15_PreviousIffTouched ==
    pc = "idle" =>
        /\ (previous = None) <=> (data = 0 .. 71)
        /\ previous # None => Unwrap(previous) \notin data

\* C15 witness: previous was set by a final biased attempt made after the
\* pool had returned channels.
C15_Witness ==
    /\ pc = "idle" /\ op = "biased_last" /\ previous = ret
    /\ returned["pool"] # {} /\ Cardinality(data) < 71

(***************************************************************************)
(* C16, under SpecFresh: count is the number of calls completed since the  *)
(* bias was configured on the fresh state.                                 *)
(***************************************************************************)
\* this step ends a call of get_next_channel
ReturnStep == pc' = "idle" /\ ret' # None

\* C16: with a bias (s, n), n >= 1, configured on a fresh state, exactly the
\* first n calls are biased: each returns a channel of bank s - 1 and adds one
\* to num_retries; the first n - 1 leave the mask and previous as they are,
\* the n-th records its channel as previous and clears its mask bit; every
\* later call is delegated to the pool.
C16_ExactlyNBiased ==
    [][(ReturnStep /\ preferred_subband # None /\ max_retries >= 1) =>
         LET s == Unwrap(preferred_subband)
             n == max_retries
             k == count + 1
             ch == Unwrap(ret')
         IN /\ k <= n =>
                 /\ op' \in BiasedOps
                 /\ Bank(ch) = s - 1
                 /\ num_retries = k - 1 /\ num_retries' = k
            /\ k < n => (op' = "biased" /\ data' = data /\ previous' = previous)
            /\ k = n =>
                 /\ op' = "biased_last"
                 /\ previous' = Some(ch)
                 /\ data' = data \ {ch} /\ ch \in data
            /\ k > n => (op' \in PoolOps /\ num_retries' = n /\ num_retries = n)]_vars

\* C16 witness: with max_retries = 2, the third call came from the pool after
\* two biased attempts that returned different channels.
C16_Witness ==
    /\ preferred_subband # None /\ max_retries = 2 /\ num_retries = 2
    /\ count = 3 /\ op = "direct"
    /\ returned["biased"] # {} /\ returned["biased"] # returned["biased_last"]

(***************************************************************************)
(* C17, under Spec.                                                        *)
(***************************************************************************)
\* C17: the fallback search is entered only after the walk crossed all 9
\* banks on its lane and came back to the bank where the pool's cycle began:
\* the searched bank is the bank of the channel that began the cycle, and the
\* 8 picks before this one did not enter the search.
C17_FallbackAfterFullLoop ==
    [][(pc = "idle" /\ pc' = "search") =>
         /\ start # None
         /\ bank' = Bank(Unwrap(start))
         /\ since = NumBanks - 1]_vars

(***************************************************************************)
(* C18, under SpecFresh.                                                   *)
(***************************************************************************)
\* C18: a call that accepts the direct candidate draws no value from the
\* entropy source, a fresh pick draws exactly one, a biased pick draws exactly
\* one, and only a call that enters the fallback search draws one or more.
C18_DrawsPerCall ==
    /\ (pc = "idle" /\ op = "direct") => draws = 0
    /\ (pc = "idle" /\ op = "fresh") => draws = 1
    /\ (pc = "idle" /\ op \in BiasedOps) => draws = 1
    /\ (pc = "idle" /\ op = "fallback") => draws >= 1
    /\ pc = "search" => draws >= 1
    /\ draws > 1 => (pc = "search" \/ op = "fallback")

\* C18 witness: a fallback pick that needed a second word of entropy.
C18_Witness == pc = "idle" /\ op = "fallback" /\ draws = 2

(***************************************************************************)
(* C19, under SpecFresh.                                                   *)
(***************************************************************************)
\* bits [3(k-1), 3(k-1)+2] of the word w
Field(w, k) == (w \div (8 ^ (k - 1))) % 8

\* C19: in the fallback search every word drawn (the first and every refill)
\* supplies exactly 10 candidate offsets, the k-th being bits [3(k-1), 3(k-1)+2]
\* of that word, and a fresh word is drawn only after those 10 failed.
C19_TenFieldsPerWord ==
    /\ [](pc = "search" =>
            /\ entropy_used \in 1 .. 10
            /\ channel = Field(word, entropy_used) + bank * 8)
    /\ [][(pc = "search" /\ pc' = "search") =>
            /\ entropy_used' = 1 => entropy_used = 10
            /\ entropy_used' # 1 => (word' = word /\ entropy_used' = entropy_used + 1)]_vars

====
